---------------------------- MODULE Spec2Model ----------------------------
(***************************************************************************)
(* Model of src/data.py: the ERA reliability dashboard script.             *)
(*                                                                         *)
(* The script reads every worksheet of a spreadsheet, cleans each one      *)
(* into a table, concatenates the tables, computes SAIDI / SAIFI / CAIDI   *)
(* per (feeder, month[, date | week]) and displays the slice chosen in     *)
(* the sidebar.  One run of the script is one behaviour of Spec.           *)
(*                                                                         *)
(* Representation.                                                         *)
(*   - a Python str is a sequence of one-character strings;                *)
(*   - a nullable cell (NaN / NaT / None) is <<>>, a present value v is    *)
(*     <<v>>;                                                              *)
(*   - a timestamp is a number of hours since 2023-12-30 00:00 (a          *)
(*     Saturday), a date is a number of days since 2023-12-30;             *)
(*   - a float is an exact rational [num, den] in lowest terms;            *)
(*   - the i-th worksheet's title (titles are unique in a spreadsheet) is  *)
(*     the number i;                                                       *)
(*   - a DataFrame is a sequence of rows, a row a record keyed by the      *)
(*     (already stripped) column names without blanks and brackets.        *)
(***************************************************************************)
EXTENDS Integers, Sequences, FiniteSets, TLC

\* ------------------------------------------------------------------ bounds
\* Raw rows in the whole spreadsheet, worksheets in it.
MaxRows == 2
MaxSheets == 2
\* Length of a raw feeder name and of a whitespace variant of it (SpecNorm).
MaxNameLen == 3
MaxVariantLen == 5

\* ------------------------------------------------------------- characters
NBSP == "nbsp"

Letters == {"A", "b"}

Chars == Letters \cup {" ", NBSP}

\* str.isspace() for the characters of the model: U+0020 and U+00A0.
IsSpace(c) == c \in {" ", NBSP}

\* ord(c), which orders strings.
CharCode(c) ==
  CASE c = " " -> 32
    [] c = "-" -> 45
    [] c \in {"0", "1", "2", "3", "4", "5", "6", "7", "8", "9"} ->
         48 + (CHOOSE n \in 0..9 :
                 <<"0", "1", "2", "3", "4", "5", "6", "7", "8", "9">>[n + 1] = c)
    [] c = "A" -> 65
    [] c = "B" -> 66
    [] c = "W" -> 87
    [] c = "b" -> 98
    [] c = NBSP -> 160

\* Python's str comparison: lexicographic by code point.
RECURSIVE StrLess(_, _)
StrLess(s, t) ==
  IF t = <<>> THEN FALSE
  ELSE IF s = <<>> THEN TRUE
  ELSE IF Head(s) = Head(t) THEN StrLess(Tail(s), Tail(t))
  ELSE CharCode(Head(s)) < CharCode(Head(t))

\* --------------------------------------------------------- Name Normalizer
RECURSIVE LStrip(_)
LStrip(s) == IF s # <<>> /\ IsSpace(Head(s)) THEN LStrip(Tail(s)) ELSE s

RECURSIVE RStrip(_)
RStrip(s) ==
  IF s # <<>> /\ IsSpace(s[Len(s)]) THEN RStrip(SubSeq(s, 1, Len(s) - 1)) ELSE s

\* str.strip(): leading and trailing whitespace removed.
strip(s) == RStrip(LStrip(s))

\* The NFKD decomposition of one character: U+00A0 decomposes to U+0020, the
\* other characters of the model are their own decomposition.
NFKDChar(c) == IF c = NBSP THEN <<" ">> ELSE <<c>>

\* unicodedata.normalize("NFKD", s).
RECURSIVE normalize(_)
normalize(s) ==
  IF s = <<>> THEN <<>> ELSE NFKDChar(Head(s)) \o normalize(Tail(s))

\* str.replace(old, new) for one-character old and new.
replace(s, old, new) == [i \in 1..Len(s) |-> IF s[i] = old THEN new ELSE s[i]]

\* The length of the longest prefix of s without whitespace.
RECURSIVE WordLen(_)
WordLen(s) ==
  IF s = <<>> \/ IsSpace(Head(s)) THEN 0 ELSE 1 + WordLen(Tail(s))

\* str.split(): the maximal runs of non-whitespace characters.
RECURSIVE split(_)
split(s) ==
  LET t == LStrip(s)
      k == WordLen(t)
  IN  IF t = <<>> THEN <<>>
      ELSE <<SubSeq(t, 1, k)>> \o split(SubSeq(t, k + 1, Len(t)))

\* ' '.join(words).
RECURSIVE join(_)
join(words) ==
  IF words = <<>> THEN <<>>
  ELSE IF Len(words) = 1 THEN words[1]
  ELSE words[1] \o <<" ">> \o join(Tail(words))

\* Without the final ' '.join(name.split()).
clean_feeder_name_nosplit(name) ==
  replace(normalize(strip(name)), NBSP, " ")

\* Lines 28-34.
clean_feeder_name(name) ==
  join(split(replace(normalize(strip(name)), NBSP, " ")))


\* ---------------------------------------------------------------- raw cells
\* What get_all_records() yields for a cell: a number (numericised), a
\* timestamp text, or any other text (blank included).  v is 0 when unused.
num(n) == [t |-> "num", v |-> n]

datetime(h) == [t |-> "datetime", v |-> h]

text == [t |-> "text", v |-> 0]

\* A well-formed row; the raw rows of the model differ from it in one cell.
DefaultRow ==
  [FeederName |-> <<"A">>, InterruptionTime |-> datetime(48),
   RestorationTime |-> datetime(74), CustomerNo |-> num(2),
   FaultCategory |-> "F"]

RawRows ==
  {DefaultRow}
  \cup {[DefaultRow EXCEPT !.FeederName = n] : n \in {<<"A", " ">>, <<"B">>}}
  \cup {[DefaultRow EXCEPT !.InterruptionTime = c] :
          c \in {text, datetime(24), datetime(72)}}
  \cup {[DefaultRow EXCEPT !.RestorationTime = c] : c \in {text, datetime(30)}}
  \cup {[DefaultRow EXCEPT !.CustomerNo = c] : c \in {text, num(-1), num(0)}}
  \cup {[DefaultRow EXCEPT !.FaultCategory = ""]}

\* The sum of the first n of the lengths lens.
RECURSIVE SumTo(_, _)
SumTo(lens, n) == IF n = 0 THEN 0 ELSE lens[n] + SumTo(lens, n - 1)

\* The worksheets' lengths: at most MaxSheets worksheets, MaxRows rows in all.
SheetLengths ==
  UNION {{lens \in [1..n -> 0..MaxRows] : SumTo(lens, n) <= MaxRows} :
           n \in 0..MaxSheets}

\* The spreadsheet whose worksheets have the lengths lens and, one after the
\* other, the rows of flat.
SpreadsheetOf(flat, lens) ==
  [w \in 1..Len(lens) |->
     SubSeq(flat, SumTo(lens, w - 1) + 1, SumTo(lens, w))]

\* ---------------------------------------------------------- Record Ingestor
\* pd.to_datetime(..., errors="coerce"): the timestamp, NaT if unparseable.
to_datetime(cell) == IF cell.t = "datetime" THEN <<cell.v>> ELSE <<>>

\* pd.to_numeric(..., errors="coerce"): the number, NaN if not numeric.
to_numeric(cell) == IF cell.t = "num" THEN <<cell.v>> ELSE <<>>

\* (Restoration - Interruption).total_seconds() / 3600; NaN if either is NaT.
duration_hr(restoration, interruption) ==
  IF restoration = <<>> \/ interruption = <<>> THEN <<>>
  ELSE <<restoration[1] - interruption[1]>>

\* .dt.date: the calendar day of the timestamp; NaT stays null.
dt_date(ts) == IF ts = <<>> THEN <<>> ELSE <<ts[1] \div 24>>

\* Calendar of a day counted from 2023-12-30: the year, the day of the year
\* from 0, the weekday with Sunday 0.  2024 has 366 days.
Year(d) == IF d < 2 THEN 2023 ELSE 2024

YDay(d) == IF d < 2 THEN 363 + d ELSE d - 2

WDay(d) == (d + 6) % 7

Digit(n) == <<"0", "1", "2", "3", "4", "5", "6", "7", "8", "9">>[n + 1]

\* strftime's %U: week of the year, Sunday first, days before the first
\* Sunday in week 0.
WeekOfYear(d) == (YDay(d) + 7 - WDay(d)) \div 7

\* A week label that is always NaN.
dt_strftime_week_nat(ts) == <<>>

\* .dt.strftime("%Y-W%U"); NaN for NaT.
dt_strftime_week(ts) ==
  IF ts = <<>> THEN <<>>
  ELSE LET d == ts[1] \div 24
           y == Year(d)
           w == WeekOfYear(d)
       IN  << <<Digit(y \div 1000), Digit((y \div 100) % 10), Digit((y \div 10) % 10),
                Digit(y % 10), "-", "W", Digit(w \div 10), Digit(w % 10)>> >>

\* Lines 63-75 for one raw row: the columns of the typed row.
TypedRow(raw, month) ==
  LET it == to_datetime(raw.InterruptionTime)
      rt == to_datetime(raw.RestorationTime)
  IN  [FeederName |-> clean_feeder_name(raw.FeederName),
       Month |-> month,
       InterruptionTime |-> it,
       RestorationTime |-> rt,
       Duration |-> duration_hr(rt, it),
       Date |-> dt_date(it),
       Week |-> dt_strftime_week(it),
       CustomerNo |-> to_numeric(raw.CustomerNo),
       FaultCategory |-> <<raw.FaultCategory>>]

\* Columns whose cells may be null.
NullableCols ==
  {"InterruptionTime", "RestorationTime", "Duration", "Date", "Week",
   "CustomerNo", "FaultCategory"}

isnull(row, col) == col \in NullableCols /\ row[col] = <<>>

RECURSIVE SelectRows(_, _)
SelectRows(df, keep) ==
  IF df = <<>> THEN <<>>
  ELSE (IF keep[1] THEN <<Head(df)>> ELSE <<>>)
       \o SelectRows(Tail(df), Tail(keep))

\* A subset of one column.
dropna_customer_only(df, subset) ==
  SelectRows(df, [i \in 1..Len(df) |-> ~isnull(df[i], "CustomerNo")])

\* df.dropna(subset=...): the rows with no null in the subset's columns.
dropna(df, subset) ==
  SelectRows(df, [i \in 1..Len(df) |-> \A c \in subset : ~isnull(df[i], c)])

\* dropna without inplace=True: nothing is dropped.
CleanTable_nodrop(data, month) ==
  [i \in 1..Len(data) |-> TypedRow(data[i], month)]

\* The loop body, lines 63-79, for one worksheet's records.
CleanTable(data, month) ==
  dropna([i \in 1..Len(data) |-> TypedRow(data[i], month)],
         {"CustomerNo", "Duration", "FaultCategory"})

\* ----------------------------------------------------------- Dataset Merger
RECURSIVE concat(_)
concat(frames) ==
  IF frames = <<>> THEN <<>> ELSE Head(frames) \o concat(Tail(frames))

\* ------------------------------------------------------------------ floats
Abs(n) == IF n < 0 THEN -n ELSE n

RECURSIVE GCD(_, _)
GCD(a, b) == IF b = 0 THEN a ELSE GCD(b, a % b)

\* The quotient n / d (d # 0) in lowest terms with a positive denominator.
Rat(n, d) ==
  LET g == GCD(Abs(n), Abs(d))
      s == IF d < 0 THEN -1 ELSE 1
  IN  [num |-> (s * n) \div g, den |-> (s * d) \div g]

FromInt(n) == [num |-> n, den |-> 1]

\* a / b for b # 0.
RatDiv(a, b) == Rat(a.num * b.den, a.den * b.num)

\* ------------------------------------------------------- Metrics Aggregator
\* g["Customer No"].sum(); Series.sum() skips NaN.
RECURSIVE SumCustomers(_)
SumCustomers(g) ==
  IF g = <<>> THEN 0
  ELSE (IF Head(g).CustomerNo = <<>> THEN 0 ELSE Head(g).CustomerNo[1])
       + SumCustomers(Tail(g))

\* (g["Duration (hr)"] * g["Customer No"]).sum(); a product with a NaN
\* factor is NaN and is skipped.
RECURSIVE SumWeighted(_)
SumWeighted(g) ==
  IF g = <<>> THEN 0
  ELSE (IF Head(g).Duration = <<>> \/ Head(g).CustomerNo = <<>> THEN 0
        ELSE Head(g).Duration[1] * Head(g).CustomerNo[1])
       + SumWeighted(Tail(g))

\* SAIDI as the plain mean of the durations.
GroupMetrics_unweighted(g) ==
  LET C == SumCustomers(g)
      W == SumWeighted(g)
      D == SumWeighted([i \in 1..Len(g) |-> [g[i] EXCEPT !.CustomerNo = <<1>>]])
  IN  [SAIDI |-> IF C > 0 THEN Rat(D, Len(g)) ELSE FromInt(0),
       SAIFI |-> IF C > 0 THEN Rat(C, C) ELSE FromInt(0),
       CAIDI |-> IF C > 0 THEN RatDiv(Rat(D, Len(g)), Rat(C, C)) ELSE FromInt(0)]

\* SAIFI as interruptions per customer.
GroupMetrics_frequency(g) ==
  LET C == SumCustomers(g)
      W == SumWeighted(g)
  IN  [SAIDI |-> IF C > 0 THEN Rat(W, C) ELSE FromInt(0),
       SAIFI |-> IF C > 0 THEN Rat(Len(g), C) ELSE FromInt(0),
       CAIDI |-> IF C > 0 THEN RatDiv(Rat(W, C), Rat(Len(g), C)) ELSE FromInt(0)]

\* The lambda of lines 40-49 applied to one group.
GroupMetrics(g) ==
  LET C == SumCustomers(g)
      W == SumWeighted(g)
  IN  [SAIDI |-> IF C > 0 THEN Rat(W, C) ELSE FromInt(0),
       SAIFI |-> IF C > 0 THEN Rat(C, C) ELSE FromInt(0),
       CAIDI |-> IF C > 0 THEN RatDiv(Rat(W, C), Rat(C, C)) ELSE FromInt(0)]

\* The values of a row in the grouping columns.
KeyOf(row, group_cols) == [i \in 1..Len(group_cols) |-> row[group_cols[i]]]

\* groupby drops the rows with a null grouping value (dropna=True).
HasKey(row, group_cols) ==
  \A i \in 1..Len(group_cols) : ~isnull(row, group_cols[i])

\* The order of the values of one column.
ColLess(col, x, y) ==
  CASE col = "FeederName" -> StrLess(x, y)
    [] col = "Month" -> x < y
    [] col = "Date" -> x[1] < y[1]
    [] col = "Week" -> StrLess(x[1], y[1])

RECURSIVE KeyLessFrom(_, _, _, _)
KeyLessFrom(group_cols, a, b, i) ==
  IF i > Len(group_cols) THEN FALSE
  ELSE IF a[i] = b[i] THEN KeyLessFrom(group_cols, a, b, i + 1)
  ELSE ColLess(group_cols[i], a[i], b[i])

KeyLess(group_cols, a, b) == KeyLessFrom(group_cols, a, b, 1)

\* The group keys in ascending order (groupby sorts its keys).
RECURSIVE SortedKeys(_, _)
SortedKeys(keys, group_cols) ==
  IF keys = {} THEN <<>>
  ELSE LET k == CHOOSE x \in keys :
                  \A y \in keys \ {x} : KeyLess(group_cols, x, y)
       IN  <<k>> \o SortedKeys(keys \ {k}, group_cols)

GroupRows(df, group_cols, key) ==
  SelectRows(df, [i \in 1..Len(df) |->
                    HasKey(df[i], group_cols) /\ KeyOf(df[i], group_cols) = key])

\* One output row: the key's columns (reset_index) and the three indices.
MetricsRow(group_cols, key, g) ==
  LET m == GroupMetrics(g)
  IN  [c \in {group_cols[i] : i \in 1..Len(group_cols)} \cup {"SAIDI", "SAIFI", "CAIDI"} |->
         IF c \in {"SAIDI", "SAIFI", "CAIDI"} THEN m[c]
         ELSE key[CHOOSE i \in 1..Len(group_cols) : group_cols[i] = c]]

\* compute_metrics for a non-empty df.
compute_metrics(df, group_cols) ==
  LET keys == {KeyOf(df[i], group_cols) :
                 i \in {j \in 1..Len(df) : HasKey(df[j], group_cols)}}
      order == SortedKeys(keys, group_cols)
  IN  [n \in 1..Len(order) |->
         MetricsRow(group_cols, order[n], GroupRows(df, group_cols, order[n]))]

\* -------------------------------------------------------- Query/Filter Layer
RECURSIVE SortedSeq(_, _)
SortedSeq(S, col) ==
  IF S = {} THEN <<>>
  ELSE LET v == CHOOSE x \in S : \A y \in S \ {x} : ColLess(col, x, y)
       IN  <<v>> \o SortedSeq(S \ {v}, col)

\* sorted(df_all["Month"].unique()).
month_options(df) == SortedSeq({df[i].Month : i \in 1..Len(df)}, "Month")

\* sorted(df_all[df_all["Month"] == selected_month]["Feeder Name"].unique());
\* selected_month is <<m>>, or <<>> for None.
feeder_options(df, selected_month) ==
  SortedSeq({df[i].FeederName :
               i \in {j \in 1..Len(df) : <<df[j].Month>> = selected_month}},
            "FeederName")

\* What st.selectbox can return: one of the options, None if there is none.
selectbox(options) ==
  IF options = <<>> THEN {<<>>} ELSE {<<options[i]>> : i \in 1..Len(options)}

\* Lines 114-117.
filter_metrics(metrics_df, selected_month, selected_feeder) ==
  SelectRows(metrics_df,
             [i \in 1..Len(metrics_df) |->
                <<metrics_df[i].Month>> = selected_month
                /\ <<metrics_df[i].FeederName>> = selected_feeder])

\* The number of rows of df whose value of col is below v, and of the rows
\* before position i with the same value: the place of row i after the sort.
Rank(df, col, i) ==
  Cardinality({j \in 1..Len(df) : ColLess(col, df[j][col], df[i][col])})
  + Cardinality({j \in 1..(i - 1) : df[j][col] = df[i][col]})

\* DataFrame.sort_values(col), ascending, equal values in their order.
sort_values(df, col) ==
  [n \in 1..Len(df) |-> df[CHOOSE i \in 1..Len(df) : Rank(df, col, i) = n - 1]]

\* The first row of the sorted table as the snapshot.
metrics_display_first(filtered, group_field) ==
  IF filtered # <<>>
  THEN [latest |-> <<sort_values(filtered, group_field)[1]>>,
        shown |-> "metric"]
  ELSE [latest |-> <<>>, shown |-> "warning"]

\* A row of zeros for an empty selection.
metrics_display_zeros(filtered, group_field) ==
  IF filtered # <<>>
  THEN [latest |-> <<sort_values(filtered, group_field)[Len(filtered)]>>,
        shown |-> "metric"]
  ELSE [latest |-> <<[SAIDI |-> FromInt(0), SAIFI |-> FromInt(0),
                      CAIDI |-> FromInt(0)]>>,
        shown |-> "metric"]

\* Lines 122-129: the current snapshot and what is displayed.
metrics_display(filtered, group_field) ==
  IF filtered # <<>>
  THEN [latest |-> <<sort_values(filtered, group_field)[Len(filtered)]>>,
        shown |-> "metric"]
  ELSE [latest |-> <<>>, shown |-> "warning"]

\* Lines 134-152: the trend plots.
plots_display(filtered) == IF filtered # <<>> THEN "charts" ELSE "info"

\* ------------------------------------------------------------------- state
VARIABLES
  spreadsheet,      \* the worksheets' records, in worksheet order
  wsIndex,          \* worksheets the loop of line 57 has visited
  month, data, df,  \* the loop's variables (month is 0 before the loop)
  all_data,         \* line 55
  df_all,           \* line 84
  daily_metrics, weekly_metrics, monthly_metrics,
  period, selected_month, selected_feeder,
  group_field, filtered_metrics,
  latest, shown, plots,
  pc,               \* where the script is
  name, cleaned,    \* a raw feeder name and clean_feeder_name of it
  variant, variantCleaned  \* a whitespace variant of name, and its cleaning

pipeVars ==
  <<spreadsheet, wsIndex, month, data, df, all_data, df_all, daily_metrics,
    weekly_metrics, monthly_metrics, period, selected_month, selected_feeder,
    group_field, filtered_metrics, latest, shown, plots, pc>>

normVars == <<name, cleaned, variant, variantCleaned>>

vars == <<pipeVars, normVars>>

loopVars == <<month, data, df>>

metricVars == <<daily_metrics, weekly_metrics, monthly_metrics>>

queryVars ==
  <<period, selected_month, selected_feeder, group_field, filtered_metrics,
    latest, shown, plots>>

PipeInit(sheets) ==
  /\ spreadsheet = sheets
  /\ wsIndex = 0
  /\ month = 0
  /\ data = <<>>
  /\ df = <<>>
  /\ all_data = <<>>
  /\ df_all = <<>>
  /\ daily_metrics = <<>>
  /\ weekly_metrics = <<>>
  /\ monthly_metrics = <<>>
  /\ period = "unset"
  /\ selected_month = <<>>
  /\ selected_feeder = <<>>
  /\ group_field = "unset"
  /\ filtered_metrics = <<>>
  /\ latest = <<>>
  /\ shown = "nothing"
  /\ plots = "nothing"
  /\ pc = "load"

NormInit(raw) ==
  /\ name = raw
  /\ cleaned = clean_feeder_name(raw)
  /\ variant = raw
  /\ variantCleaned = clean_feeder_name(raw)

Init ==
  /\ \E lens \in SheetLengths :
       \E flat \in [1..SumTo(lens, Len(lens)) -> RawRows] :
         PipeInit(SpreadsheetOf(flat, lens))
  /\ NormInit(<<>>)

\* Lines 57-61: a worksheet without records is skipped.
SkipWorksheet ==
  /\ pc = "load"
  /\ wsIndex < Len(spreadsheet)
  /\ spreadsheet[wsIndex + 1] = <<>>
  /\ wsIndex' = wsIndex + 1
  /\ month' = wsIndex + 1
  /\ data' = <<>>
  /\ UNCHANGED <<spreadsheet, df, all_data, df_all, metricVars, queryVars, pc, normVars>>

\* Lines 57-81: a worksheet with records is cleaned and appended.
LoadWorksheet ==
  /\ pc = "load"
  /\ wsIndex < Len(spreadsheet)
  /\ spreadsheet[wsIndex + 1] # <<>>
  /\ wsIndex' = wsIndex + 1
  /\ month' = wsIndex + 1
  /\ data' = spreadsheet[wsIndex + 1]
  /\ df' = CleanTable(data', month')
  /\ all_data' = Append(all_data, df')
  /\ UNCHANGED <<spreadsheet, df_all, metricVars, queryVars, pc,
                 normVars>>

\* Line 84 on an empty list: pd.concat raises ValueError, the script stops.
ConcatNoObjects ==
  /\ pc = "load"
  /\ wsIndex = Len(spreadsheet)
  /\ all_data = <<>>
  /\ pc' = "concat_error"
  /\ UNCHANGED <<spreadsheet, wsIndex, loopVars, all_data, df_all, metricVars,
                 queryVars, normVars>>

\* Line 84.
Concat ==
  /\ pc = "load"
  /\ wsIndex = Len(spreadsheet)
  /\ all_data # <<>>
  /\ df_all' = concat(all_data)
  /\ pc' = "merged"
  /\ UNCHANGED <<spreadsheet, wsIndex, loopVars, all_data, metricVars,
                 queryVars, normVars>>

\* Lines 87-89.
BuildMetrics ==
  /\ pc = "merged"
  /\ df_all # <<>>
  /\ daily_metrics' = compute_metrics(df_all, <<"FeederName", "Month", "Date">>)
  /\ weekly_metrics' = compute_metrics(df_all, <<"FeederName", "Month", "Week">>)
  /\ monthly_metrics' = compute_metrics(df_all, <<"FeederName", "Month">>)
  /\ pc' = "built"
  /\ UNCHANGED <<spreadsheet, wsIndex, loopVars, all_data, df_all, queryVars, normVars>>

\* Lines 87-89 on a df_all without rows.  groupby(...).apply finds no group
\* and returns an empty frame with df's columns; what reset_index() does with
\* it depends on the pandas installed (none is pinned): with the grouping
\* columns still among them it raises "cannot insert Feeder Name, already
\* exists" ...
BuildMetricsEmptyRaises ==
  /\ pc = "merged"
  /\ df_all = <<>>
  /\ pc' = "metrics_error"
  /\ UNCHANGED <<spreadsheet, wsIndex, loopVars, all_data, df_all, metricVars,
                 queryVars, normVars>>

\* ... and with the grouping columns excluded from the applied frame it
\* returns three tables without rows.
BuildMetricsEmpty ==
  /\ pc = "merged"
  /\ df_all = <<>>
  /\ daily_metrics' = <<>>
  /\ weekly_metrics' = <<>>
  /\ monthly_metrics' = <<>>
  /\ pc' = "built"
  /\ UNCHANGED <<spreadsheet, wsIndex, loopVars, all_data, df_all, queryVars, normVars>>

\* Lines 104-112: the table and the sort field of a period.
metrics_df_of(p) ==
  IF p = "Daily" THEN daily_metrics
  ELSE IF p = "Weekly" THEN weekly_metrics
  ELSE monthly_metrics

group_field_of(p) ==
  IF p = "Daily" THEN "Date" ELSE IF p = "Weekly" THEN "Week" ELSE "Month"

\* Lines 94-152: the sidebar's three choices, the filtered table, the
\* snapshot and the plots.
Render ==
  /\ pc = "built"
  /\ \E p \in {"Daily", "Weekly", "Monthly"} :
       \E m \in selectbox(month_options(df_all)) :
         \E f \in selectbox(feeder_options(df_all, m)) :
           LET filtered == filter_metrics(metrics_df_of(p), m, f)
               shownNow == metrics_display(filtered, group_field_of(p))
           IN  /\ period' = p
               /\ selected_month' = m
               /\ selected_feeder' = f
               /\ group_field' = group_field_of(p)
               /\ filtered_metrics' = filtered
               /\ latest' = shownNow.latest
               /\ shown' = shownNow.shown
               /\ plots' = plots_display(filtered)
  /\ pc' = "done"
  /\ UNCHANGED <<spreadsheet, wsIndex, loopVars, all_data, df_all, metricVars,
                 normVars>>

Next ==
  \/ SkipWorksheet
  \/ LoadWorksheet
  \/ ConcatNoObjects
  \/ Concat
  \/ BuildMetrics
  \/ BuildMetricsEmptyRaises
  \/ BuildMetricsEmpty
  \/ Render

Spec == Init /\ [][Next]_vars

\* ------------------------------------------- the normalizer on its own
\* The raw feeder names of at most n characters.
RawNames(n) == UNION {[1..k -> Chars] : k \in 0..n}

InsertAt(s, i, c) == SubSeq(s, 1, i) \o <<c>> \o SubSeq(s, i + 1, Len(s))

RemoveAt(s, i) == SubSeq(s, 1, i - 1) \o SubSeq(s, i + 1, Len(s))

Cleaned(v) ==
  /\ variant' = v
  /\ variantCleaned' = clean_feeder_name(v)
  /\ UNCHANGED <<name, cleaned, pipeVars>>

\* A space or a non-breaking space more at either end.
PadOutside ==
  /\ Len(variant) < MaxVariantLen
  /\ \E c \in {" ", NBSP} : \E i \in {0, Len(variant)} :
       Cleaned(InsertAt(variant, i, c))

\* A leading or trailing whitespace character less.
TrimOutside ==
  /\ variant # <<>>
  /\ \E i \in {1, Len(variant)} :
       IsSpace(variant[i]) /\ Cleaned(RemoveAt(variant, i))

\* An internal run of spaces one space longer.
StretchRun ==
  /\ Len(variant) < MaxVariantLen
  /\ \E i \in 1..Len(variant) :
       IsSpace(variant[i]) /\ Cleaned(InsertAt(variant, i, " "))

\* An internal run of spaces one character shorter.
ShrinkRun ==
  \E i \in 1..(Len(variant) - 1) :
    /\ IsSpace(variant[i])
    /\ IsSpace(variant[i + 1])
    /\ Cleaned(RemoveAt(variant, i))

\* A space replaced by a non-breaking space, or the reverse.
SwapSpace ==
  \E i \in 1..Len(variant) :
    /\ IsSpace(variant[i])
    /\ Cleaned([variant EXCEPT ![i] = IF @ = " " THEN NBSP ELSE " "])

InitNorm ==
  /\ \E raw \in RawNames(MaxNameLen) : NormInit(raw)
  /\ PipeInit(<<>>)

NextNorm ==
  \/ PadOutside
  \/ TrimOutside
  \/ StretchRun
  \/ ShrinkRun
  \/ SwapSpace

SpecNorm == InitNorm /\ [][NextNorm]_vars

\* ----------------------------------------------------------------- claims
LettersOf(s) == SelectSeq(s, LAMBDA c : ~IsSpace(c))

\* C9: a feeder name and any name that differs from it only by leading or
\* trailing whitespace, by the length of its runs of spaces or by
\* non-breaking spaces in place of spaces are cleaned to the same string;
\* that string has no whitespace at either end, no non-breaking space and no
\* two spaces in a row, and the letters of the name in their order and case.
C9_NormalizerEquivalence ==
  /\ variantCleaned = cleaned
  /\ cleaned # <<>> => ~IsSpace(cleaned[1]) /\ ~IsSpace(cleaned[Len(cleaned)])
  /\ \A i \in 1..Len(cleaned) : cleaned[i] # NBSP
  /\ \A i \in 1..(Len(cleaned) - 1) : ~(cleaned[i] = " " /\ cleaned[i + 1] = " ")
  /\ LettersOf(cleaned) = LettersOf(name)

\* A variant with a longer internal run and a non-breaking space, whose
\* cleaning differs from it.
C9_Witness ==
  /\ variant # name
  /\ \E i \in 2..(Len(variant) - 2) :
       IsSpace(variant[i]) /\ IsSpace(variant[i + 1])
       /\ ~IsSpace(variant[1]) /\ ~IsSpace(variant[Len(variant)])
  /\ \E i \in 1..Len(variant) : variant[i] = NBSP
  /\ \E i \in 1..Len(variant) : variant[i] = "b"
  /\ variantCleaned # variant

\* ---- helpers of the pipeline's claims, stated on the raw input
\* A raw row with a numeric customer count and two parseable timestamps:
\* the cells from which the three required fields come out non-null (a
\* fault category read from the sheet is a string, never null).
RawRowValid(raw) ==
  /\ raw.CustomerNo.t = "num"
  /\ raw.InterruptionTime.t = "datetime"
  /\ raw.RestorationTime.t = "datetime"

ValidRowsOf(table) == {i \in 1..Len(table) : RawRowValid(table[i])}

RequiredPresent(row) ==
  /\ row.CustomerNo # <<>>
  /\ row.Duration # <<>>
  /\ row.FaultCategory # <<>>

\* The worksheets visited so far that had records, in order.
Loaded == SelectSeq([i \in 1..wsIndex |-> i], LAMBDA i : spreadsheet[i] # <<>>)

Merged == pc \in {"merged", "built", "done"}

Built == pc \in {"built", "done"}

\* The three metrics tables with their grouping columns.
Tables ==
  {[rows |-> daily_metrics, cols |-> <<"FeederName", "Month", "Date">>],
   [rows |-> weekly_metrics, cols |-> <<"FeederName", "Month", "Week">>],
   [rows |-> monthly_metrics, cols |-> <<"FeederName", "Month">>]}

\* The rows of df_all that carry the key values of a metrics row.
Members(mrow, cols) ==
  {i \in 1..Len(df_all) : \A k \in 1..Len(cols) : df_all[i][cols[k]] = mrow[cols[k]]}

RECURSIVE TotalOver(_, _)
TotalOver(I, f) ==
  IF I = {} THEN 0
  ELSE LET i == CHOOSE x \in I : TRUE IN f[i] + TotalOver(I \ {i}, f)

\* C = the sum of customer_count, W = the sum of duration_hr * customer_count.
TotalC(I) == TotalOver(I, [i \in I |-> df_all[i].CustomerNo[1]])

TotalW(I) ==
  TotalOver(I, [i \in I |-> df_all[i].Duration[1] * df_all[i].CustomerNo[1]])

IsZero(q) == q.num = 0

\* C1: the table kept for a worksheet has no more rows than the worksheet,
\* its rows have customer count, duration and fault category, and they are
\* exactly the worksheet's rows that had them, in order, with the values
\* converted from the raw cells.
C1_Ingestion ==
  /\ Len(all_data) = Len(Loaded)
  /\ \A k \in 1..Len(all_data) :
       LET raw == spreadsheet[Loaded[k]]
           kept == all_data[k]
           valid == SelectSeq(raw, RawRowValid)
       IN  /\ Len(kept) <= Len(raw)
           /\ \A i \in 1..Len(kept) : RequiredPresent(kept[i])
           /\ Len(kept) = Len(valid)
           /\ \A i \in 1..Len(kept) :
                /\ kept[i].CustomerNo = <<valid[i].CustomerNo.v>>
                /\ kept[i].FaultCategory = <<valid[i].FaultCategory>>
                /\ kept[i].Duration =
                     <<valid[i].RestorationTime.v - valid[i].InterruptionTime.v>>
  /\ data # <<>> => df = all_data[Len(all_data)] /\ Len(df) <= Len(data)

\* A worksheet of two rows, one kept and one dropped.
C1_Witness ==
  /\ Len(data) = 2
  /\ Len(df) = 1
  /\ all_data # <<>>
  /\ ~RawRowValid(data[1])

\* C2: each metrics table has exactly one row per combination of key values
\* in the unified dataset, and the row's SAIDI is W / C over the rows with
\* that combination when C > 0 and 0 otherwise; feeder names are grouped as
\* normalized.
C2_Aggregation ==
  Built /\ df_all # <<>> =>
    \A t \in Tables :
      /\ {KeyOf(t.rows[n], t.cols) : n \in 1..Len(t.rows)}
           = {KeyOf(df_all[i], t.cols) : i \in 1..Len(df_all)}
      /\ \A n1, n2 \in 1..Len(t.rows) :
           KeyOf(t.rows[n1], t.cols) = KeyOf(t.rows[n2], t.cols) => n1 = n2
      /\ \A n \in 1..Len(t.rows) :
           LET I == Members(t.rows[n], t.cols)
               C == TotalC(I)
               W == TotalW(I)
               q == t.rows[n].SAIDI
           IN  /\ q.den > 0
               /\ IF C > 0 THEN q.num * C = W * q.den ELSE IsZero(q)
               /\ t.rows[n].FeederName # <<"A", " ">>

\* The worksheet holds "A " and "A" with different durations; they make one
\* monthly group with SAIDI (26*2 + 2*2) / 4 = 14.
C2_Witness ==
  /\ Built
  /\ Len(spreadsheet) = 1
  /\ Len(spreadsheet[1]) = 2
  /\ spreadsheet[1][1].FeederName = <<"A", " ">>
  /\ spreadsheet[1][2].FeederName = <<"A">>
  /\ Len(monthly_metrics) = 1
  /\ monthly_metrics[1].FeederName = <<"A">>
  /\ monthly_metrics[1].SAIDI = [num |-> 14, den |-> 1]

\* C3: in every metrics row, SAIDI, SAIFI and CAIDI are all 0 exactly when
\* the group's total customer count is 0.
C3_ZeroIffNoCustomers ==
  Built /\ df_all # <<>> =>
    \A t \in Tables : \A n \in 1..Len(t.rows) :
      (IsZero(t.rows[n].SAIDI) /\ IsZero(t.rows[n].SAIFI) /\ IsZero(t.rows[n].CAIDI))
        <=> TotalC(Members(t.rows[n], t.cols)) = 0

\* C4: in every metrics row of a group with a positive total customer count,
\* SAIFI is 1 and CAIDI equals SAIDI.
C4_Degeneracy ==
  Built /\ df_all # <<>> =>
    \A t \in Tables : \A n \in 1..Len(t.rows) :
      TotalC(Members(t.rows[n], t.cols)) > 0 =>
        /\ t.rows[n].SAIFI = [num |-> 1, den |-> 1]
        /\ t.rows[n].CAIDI = t.rows[n].SAIDI

\* A group of two interruptions with a positive customer total and a SAIDI
\* that is not 0.
C4_Witness ==
  /\ Built
  /\ \E n \in 1..Len(monthly_metrics) :
       /\ Cardinality(Members(monthly_metrics[n], <<"FeederName", "Month">>)) = 2
       /\ TotalC(Members(monthly_metrics[n], <<"FeederName", "Month">>)) > 0
       /\ ~IsZero(monthly_metrics[n].SAIDI)

\* C5: when no worksheet yields a retained row, the script stops with an
\* error at the merge; it does not go on with a unified dataset without rows.
C5_NoEmptyMerge == Merged => df_all # <<>>

\* C6: when no row of the selected table matches the selected month and
\* feeder, the warning is shown, no snapshot is taken and no chart drawn; a
\* snapshot is always a row of the selected table.
C6_NoData ==
  pc = "done" =>
    LET table == metrics_df_of(period)
        hits == {i \in 1..Len(table) :
                   /\ <<table[i].Month>> = selected_month
                   /\ <<table[i].FeederName>> = selected_feeder}
    IN  /\ hits = {} => shown = "warning" /\ latest = <<>> /\ plots = "info"
        /\ latest # <<>> => \E i \in hits : latest[1] = table[i]

\* The warning is shown for a selection without rows.
C6_Witness ==
  /\ pc = "done"
  /\ filtered_metrics = <<>>
  /\ shown = "warning"
  /\ spreadsheet # <<>>

\* C7: for a selection with rows, the snapshot is the matching row with the
\* greatest date (daily), week label (weekly) or month (monthly), the trend
\* series holds exactly the matching rows of the selected table, and a
\* monthly selection has exactly one row.
C7_Latest ==
  pc = "done" =>
    LET table == metrics_df_of(period)
        field == group_field_of(period)
        hits == {i \in 1..Len(table) :
                   /\ <<table[i].Month>> = selected_month
                   /\ <<table[i].FeederName>> = selected_feeder}
    IN  /\ {filtered_metrics[n] : n \in 1..Len(filtered_metrics)}
             = {table[i] : i \in hits}
        /\ Len(filtered_metrics) = Cardinality(hits)
        /\ hits # {} =>
             /\ shown = "metric"
             /\ plots = "charts"
             /\ latest # <<>>
             /\ \E i \in hits : latest[1] = table[i]
             /\ \A i \in hits :
                  \/ table[i][field] = latest[1][field]
                  \/ ColLess(field, table[i][field], latest[1][field])
        /\ period = "Monthly" /\ hits # {} => Len(filtered_metrics) = 1

\* A weekly selection of two weeks on either side of the new year: the
\* snapshot is the week of 2024.
C7_Witness ==
  /\ pc = "done"
  /\ period = "Weekly"
  /\ Len(filtered_metrics) = 2
  /\ latest # <<>>
  /\ latest[1].Week = << <<"2", "0", "2", "4", "-", "W", "0", "0">> >>

\* C8: a worksheet without records, or whose rows are all rejected, has its
\* title in no row of the unified dataset, in no metrics row and not among
\* the months offered; every worksheet is visited and every other
\* worksheet's valid rows are all in the unified dataset.
C8_PeriodOmitted ==
  Merged =>
    /\ wsIndex = Len(spreadsheet)
    /\ \A w \in 1..Len(spreadsheet) :
         IF ValidRowsOf(spreadsheet[w]) = {}
         THEN /\ \A i \in 1..Len(df_all) : df_all[i].Month # w
              /\ Built =>
                   /\ \A t \in Tables : \A n \in 1..Len(t.rows) : t.rows[n].Month # w
                   /\ <<w>> \notin selectbox(month_options(df_all))
         ELSE Cardinality({i \in 1..Len(df_all) : df_all[i].Month = w})
                = Cardinality(ValidRowsOf(spreadsheet[w]))

\* A worksheet whose only row is rejected before a worksheet with a valid
\* row, after the metrics are built.
C8_Witness ==
  /\ Built
  /\ Len(spreadsheet) = 2
  /\ spreadsheet[1] # <<>>
  /\ ValidRowsOf(spreadsheet[1]) = {}
  /\ ValidRowsOf(spreadsheet[2]) # {}
  /\ monthly_metrics # <<>>

\* C10: with a unified dataset that has rows, every row has a date and a
\* week label, every offered month and feeder has rows in each of the three
\* metrics tables, and the display never takes the warning branch.
C10_SelectionHasData ==
  Built /\ df_all # <<>> =>
    /\ \A i \in 1..Len(df_all) : df_all[i].Date # <<>> /\ df_all[i].Week # <<>>
    /\ \A m \in selectbox(month_options(df_all)) :
         \A f \in selectbox(feeder_options(df_all, m)) :
           /\ m # <<>>
           /\ f # <<>>
           /\ \A p \in {"Daily", "Weekly", "Monthly"} :
                filter_metrics(metrics_df_of(p), m, f) # <<>>
    /\ pc = "done" => filtered_metrics # <<>>
    /\ pc = "done" => shown = "metric" /\ plots = "charts"

\* A weekly selection among two months and two feeders is displayed.
C10_Witness ==
  /\ pc = "done"
  /\ period = "Weekly"
  /\ Len(month_options(df_all)) = 2
  /\ selected_month = <<2>>
  /\ selected_feeder = <<<<"B">>>>
  /\ shown = "metric"

=============================================================================
